---- MODULE Spec2Model ----
(***************************************************************************)
(* A model of picture_tool (src/picture_tool/__main__.py): the author      *)
(* mapping store, smart_move, the download_artstation pipeline and the     *)
(* move_pixiv pipeline.                                                    *)
(*                                                                         *)
(* Strings are sequences of one-character strings (author names, folder    *)
(* names) or of tokens (links); a file's bytes are a small positive        *)
(* integer; a path is a tuple <<directory, stem, n>> where n = 0 is the    *)
(* plain file name and n > 0 is the stem followed by "_n".                 *)
(***************************************************************************)
EXTENDS Integers, Sequences, FiniteSets, TLC

VARIABLES
    mappingFile,      \* AUTHOR_MAPPING_FILE: [exists, text]
    AUTHOR_MAPPING,   \* the module-level dict, a sequence of <<key, value>>
    lastCall,         \* the latest get_or_prompt_username_mapping call
    dirs,             \* the directories that exist
    files,            \* path -> bytes, for the files that exist
    mv,               \* the latest smart_move call and what it did
    pc,               \* where the running command is
    error,            \* the exception that ended the command, or "none"
    source_subfolders,       \* move_pixiv: the scanned source subfolders
    destination_subfolders,  \* move_pixiv: the scanned destination subfolders
    sidx,                    \* move_pixiv: how many source subfolders are done
    target_subfolder_f,      \* move_pixiv: the folder the current files go to
    reused,                  \* move_pixiv: target_subfolder_f was found by id
    pending,                 \* move_pixiv: the files of the glob still to place
    linksFile,               \* download: the lines of the links file
    all_links,               \* download: the stripped non-empty links
    direct_links,
    indirect_links,
    unknown_links,
    lidx,                    \* download: how many indirect links are done
    username,                \* download: of the current link
    link_tags,               \* download: tags of the current link
    resolved_links,
    links_to_download,
    prompted,                \* download: the checkbox prompt was shown
    destination_subfolder

mapVars == <<mappingFile, AUTHOR_MAPPING, lastCall>>
fsVars == <<dirs, files>>
pxVars == <<source_subfolders, destination_subfolders, sidx,
            target_subfolder_f, reused, pending>>
dlVars == <<linksFile, all_links, direct_links, indirect_links, unknown_links,
            lidx, username, link_tags, resolved_links, links_to_download, prompted,
            destination_subfolder>>
ctlVars == <<pc, error>>
vars == <<mapVars, fsVars, mv, ctlVars, pxVars, dlVars>>

(***************************************************************************)
(* Bounds and small input sets                                             *)
(***************************************************************************)
Keys == { <<"k">>, <<"s","a","t","o">> }

Recommended == { <<"r">>, <<"s","a","t","o">> }

\* download: at most this many lines in the links file
MaxLinks == 2

\* download: at most this many lines in the resolver's listing
MaxListing == 2

\* move_pixiv: at most this many source subfolders in a run
MaxSubfolders == 2

\* the distinct file contents the placements draw from
NumContents == 3
Contents == 1..NumContents

\* what the user types at the input() prompt
Typed == { <<>>, <<" ">>, <<"x">>, <<" ","x"," ">> }

(***************************************************************************)
(* String helpers                                                          *)
(***************************************************************************)
IsSpace(c) == c = " "

RECURSIVE LStrip(_)
LStrip(s) == IF s # <<>> /\ IsSpace(Head(s)) THEN LStrip(Tail(s)) ELSE s

RECURSIVE RStrip(_)
RStrip(s) ==
    IF s # <<>> /\ IsSpace(s[Len(s)]) THEN RStrip(SubSeq(s, 1, Len(s) - 1)) ELSE s

\* str.strip()
Strip(s) == RStrip(LStrip(s))

\* needle in hay, for strings
IsSubstring(needle, hay) ==
    \E i \in 0..(Len(hay) - Len(needle)) : SubSeq(hay, i + 1, i + Len(needle)) = needle

\* str.split(sep) for a one-character sep
RECURSIVE Split(_, _)
Split(s, sep) ==
    IF \E i \in 1..Len(s) : s[i] = sep
    THEN LET i == CHOOSE j \in 1..Len(s) :
                      s[j] = sep /\ \A k \in 1..(j - 1) : s[k] # sep
         IN  <<SubSeq(s, 1, i - 1)>> \o Split(SubSeq(s, i + 1, Len(s)), sep)
    ELSE <<s>>

\* sep.join(parts)
RECURSIVE Join(_, _)
Join(parts, sep) ==
    IF parts = <<>> THEN <<>>
    ELSE IF Len(parts) = 1 THEN parts[1]
    ELSE parts[1] \o <<sep>> \o Join(Tail(parts), sep)

\* Path.stem of a final path component: the part before the last dot, unless
\* that dot is the first or the last character
Stem(name) ==
    LET dots == { i \in 1..Len(name) : name[i] = "." }
    IN  IF dots = {} THEN name
        ELSE LET i == CHOOSE j \in dots : \A k \in dots : k <= j
             IN  IF 1 < i /\ i < Len(name) THEN SubSeq(name, 1, i - 1) ELSE name

\* a character outside ASCII is written by its code point
NonAscii == {"U+3042"}

\* str.isascii()
IsAscii(s) == \A i \in 1..Len(s) : s[i] \notin NonAscii

\* Kakasi: the hepburn form of each item, joined
RECURSIVE Hepburn(_)
Hepburn(s) ==
    IF s = <<>> THEN <<>>
    ELSE (IF Head(s) = "U+3042" THEN <<"a">> ELSE <<Head(s)>>) \o Hepburn(Tail(s))

(***************************************************************************)
(* The author mapping store                                                *)
(***************************************************************************)
\* dict.get(key, None): an Optional as [found, value]
DictGet(d, key) ==
    IF \E i \in 1..Len(d) : d[i][1] = key
    THEN [found |-> TRUE, value |-> d[CHOOSE i \in 1..Len(d) : d[i][1] = key][2]]
    ELSE [found |-> FALSE, value |-> <<>>]

\* d[key] = value on an insertion-ordered dict
DictSet(d, key, value) ==
    IF \E i \in 1..Len(d) : d[i][1] = key
    THEN [i \in 1..Len(d) |-> IF d[i][1] = key THEN <<key, value>> ELSE d[i]]
    ELSE Append(d, <<key, value>>)

\* json.loads of an object's members: a later member replaces an earlier one
RECURSIVE json_loads(_)
json_loads(text) ==
    IF text = <<>> THEN <<>>
    ELSE DictSet(json_loads(SubSeq(text, 1, Len(text) - 1)),
                 text[Len(text)][1], text[Len(text)][2])

\* json.dumps of a dict: its members in insertion order
json_dumps(d) == d

\* a faulty variant: the file is rewritten with "{}" on every load
ensure_author_mapping_loaded_reset(file) ==
    [file |-> [exists |-> TRUE, text |-> <<>>], mapping |-> <<>>, writes |-> 1]

ensure_author_mapping_loaded(file) ==
    LET f == IF ~file.exists THEN [exists |-> TRUE, text |-> <<>>] ELSE file
    IN  [file |-> f,
         mapping |-> json_loads(f.text),
         writes |-> IF ~file.exists THEN 1 ELSE 0]

get_author_mapping(file, author) ==
    LET l == ensure_author_mapping_loaded(file)
    IN  [file |-> l.file, mapping |-> l.mapping, writes |-> l.writes,
         result |-> DictGet(l.mapping, author)]

set_author_mapping(file, author, maps_to) ==
    LET l == ensure_author_mapping_loaded(file)
        m == DictSet(l.mapping, author, maps_to)
    IN  [file |-> [exists |-> TRUE, text |-> json_dumps(m)],
         mapping |-> m,
         writes |-> l.writes + 1]

\* typed is the line the user enters if the prompt is shown
get_or_prompt_username_mapping(file, original, recommended, typed) ==
    LET g == get_author_mapping(file, original)
    IN  IF g.result.found
        THEN [file |-> g.file, mapping |-> g.mapping, writes |-> g.writes,
              prompts |-> 0, ret |-> g.result.value]
        ELSE LET mapped == Strip(typed)
                 ret == IF Len(mapped) > 0 THEN mapped ELSE recommended
                 s == set_author_mapping(g.file, original, ret)
             IN  [file |-> s.file, mapping |-> s.mapping,
                  writes |-> g.writes + s.writes, prompts |-> 1, ret |-> ret]

NoCall == [original |-> <<>>, recommended |-> <<>>, ret |-> <<>>,
           prompts |-> 0, writes |-> 0]

(***************************************************************************)
(* The file system and smart_move                                          *)
(***************************************************************************)
NoFiles == [p \in {} |-> 0]
NoPath == <<>>

\* Path.exists() of a file path
PathExists(fs, p) == p \in DOMAIN fs

WriteFile(fs, p, bytes) == [q \in DOMAIN fs \cup {p} |-> IF q = p THEN bytes ELSE fs[q]]

RemoveFile(fs, p) == [q \in DOMAIN fs \ {p} |-> fs[q]]

\* Path.rename(): the bytes move to target
Rename(fs, source, target) == WriteFile(RemoveFile(fs, source), target, fs[source])

\* hashlib.sha256 of the file's bytes: equal digests exactly for equal bytes
sha256sum(fs, filename) == fs[filename]

\* Path.stem of <<dir, stem, n>> and Path.with_stem(f"{orig_stem}_{i}")
with_stem(target, orig_stem, i) == <<target[1], orig_stem, i>>

\* subprocess.check_call: stdout=subprocess.STDOUT is not a valid handle for
\* stdout, the child cannot be started and OSError is raised
check_call(stdout) == IF stdout = "subprocess.STDOUT" THEN "OSError" ELSE "ok"

\* the while loop of smart_move from target on, i the next postfix
RECURSIVE probe(_, _, _, _, _)
probe(fs, temp_hash, target, orig_stem, i) ==
    IF ~PathExists(fs, target) THEN [hit |-> FALSE, target |-> target]
    ELSE IF sha256sum(fs, target) = temp_hash THEN [hit |-> TRUE, target |-> target]
    ELSE probe(fs, temp_hash, with_stem(target, orig_stem, i), orig_stem, i + 1)

ScrubCall(target) == [tool |-> "exiftool", what |-> "scrub", path |-> target, subject |-> <<>>]
TagCall(target, tags) == [tool |-> "exiftool", what |-> "tag", path |-> target, subject |-> tags]

\* a faulty variant: a collision is resolved by renaming over the existing target
smart_move_overwrite(ds, fs, source, target, tags) ==
    IF target[1] \notin ds
    THEN [files |-> fs, outcome |-> "FileNotFoundError", hit |-> FALSE,
          placed |-> NoPath, calls |-> <<>>]
    ELSE [files |-> Rename(fs, source, target), outcome |-> "returned",
          hit |-> FALSE, placed |-> target, calls |-> <<>>]

\* smart_move(source, target, tags) on the file system (ds, fs): the file
\* system after it, how it ended, and the external calls it made
smart_move(ds, fs, source, target, tags) ==
    IF ~PathExists(fs, target)
    THEN IF target[1] \notin ds
         THEN [files |-> fs, outcome |-> "FileNotFoundError", hit |-> FALSE,
               placed |-> NoPath, calls |-> <<>>]
         ELSE [files |-> Rename(fs, source, target), outcome |-> "returned",
               hit |-> FALSE, placed |-> target, calls |-> <<>>]
    ELSE LET orig_stem == target[2]
             temp_hash == sha256sum(fs, source)
             r == probe(fs, temp_hash, target, orig_stem, 1)
         IN  IF r.hit
             THEN [files |-> fs, outcome |-> "returned", hit |-> TRUE,
                   placed |-> NoPath, calls |-> <<>>]
             ELSE IF check_call("subprocess.STDOUT") # "ok"
             THEN [files |-> Rename(fs, source, r.target),
                   outcome |-> check_call("subprocess.STDOUT"), hit |-> FALSE,
                   placed |-> r.target, calls |-> <<ScrubCall(r.target)>>]
             ELSE [files |-> Rename(fs, source, r.target), outcome |-> "returned",
                   hit |-> FALSE, placed |-> r.target,
                   calls |-> <<ScrubCall(r.target), TagCall(r.target, tags)>>]

NoMove == [source |-> NoPath, target |-> NoPath, bytes |-> 0, tags |-> <<>>,
           outcome |-> "none", hit |-> FALSE, placed |-> NoPath, calls |-> <<>>]

MoveRecord(source, target, bytes, tags, r) ==
    [source |-> source, target |-> target, bytes |-> bytes, tags |-> tags,
     outcome |-> r.outcome, hit |-> r.hit, placed |-> r.placed, calls |-> r.calls]

\* the parts of the state a run of something else leaves alone
MapIdle ==
    /\ mappingFile = [exists |-> FALSE, text |-> <<>>]
    /\ AUTHOR_MAPPING = <<>>
    /\ lastCall = NoCall

PxIdle ==
    /\ source_subfolders = <<>>
    /\ destination_subfolders = <<>>
    /\ sidx = 0
    /\ target_subfolder_f = <<>>
    /\ reused = FALSE
    /\ pending = {}

DlIdle ==
    /\ linksFile = <<>>
    /\ all_links = <<>>
    /\ direct_links = <<>>
    /\ indirect_links = <<>>
    /\ unknown_links = <<>>
    /\ lidx = 0
    /\ username = <<>>
    /\ link_tags = <<>>
    /\ resolved_links = <<>>
    /\ links_to_download = <<>>
    /\ prompted = FALSE
    /\ destination_subfolder = <<>>

CtlIdle == pc = "idle" /\ error = "none"

(***************************************************************************)
(* Placements into one directory: a caller writes a source file and calls  *)
(* smart_move with a desired file name in DestDir.                         *)
(***************************************************************************)
DestDir == <<"destination", <<"d">>>>
TempDir == <<"temp", <<"t">>>>
FileNames == { <<"f">>, <<"g">> }
TagLists == { <<>>, <<"a", "b">> }

MoveInit ==
    /\ dirs = {DestDir, TempDir}
    /\ files = NoFiles
    /\ mv = NoMove
    /\ MapIdle /\ PxIdle /\ DlIdle /\ CtlIdle

SmartMoveCall ==
    \E bytes \in Contents, name \in FileNames, tags \in TagLists :
        LET source == <<TempDir, name, 0>>
            target == <<DestDir, name, 0>>
            r == smart_move(dirs, WriteFile(files, source, bytes), source, target, tags)
        IN  /\ files' = r.files
            /\ mv' = MoveRecord(source, target, bytes, tags, r)
            /\ UNCHANGED <<dirs, mapVars, ctlVars, pxVars, dlVars>>

MoveNext == SmartMoveCall

SpecMove == MoveInit /\ [][MoveNext]_vars

(***************************************************************************)
(* Calls of the mapping store alone                                        *)
(***************************************************************************)

MappingInit ==
    /\ dirs = {}
    /\ files = NoFiles
    /\ mv = NoMove
    /\ PxIdle /\ DlIdle /\ CtlIdle
    /\ mappingFile \in
         { [exists |-> FALSE, text |-> <<>>],
           [exists |-> TRUE, text |-> <<>>],
           [exists |-> TRUE, text |-> << <<(<<"k">>), (<<"o","l","d">>)>> >>] }
    /\ AUTHOR_MAPPING = <<>>
    /\ lastCall = NoCall

\* one call of get_or_prompt_username_mapping from a command
GetOrPrompt ==
    \E original \in Keys, recommended \in Recommended, typed \in Typed :
        LET r == get_or_prompt_username_mapping(mappingFile, original,
                                                recommended, typed)
        IN  /\ mappingFile' = r.file
            /\ AUTHOR_MAPPING' = r.mapping
            /\ lastCall' = [original |-> original, recommended |-> recommended,
                            ret |-> r.ret, prompts |-> r.prompts,
                            writes |-> r.writes]
            /\ UNCHANGED <<fsVars, mv, ctlVars, pxVars, dlVars>>

MappingNext == GetOrPrompt

SpecMapping == MappingInit /\ [][MappingNext]_vars

(***************************************************************************)
(* move_pixiv                                                              *)
(***************************************************************************)
SEPARATOR == "_"
Postfix == <<"p","i","x","i","v">>

SourceDir(name) == <<"source", name>>
DestinationDir(name) == <<"destination", name>>

\* the names a source subfolder may have: a_1, b_12, (U+3042)_c_2
SourcePool == { <<"a","_","1">>, <<"b","_","1","2">>, <<"U+3042","_","c","_","2">> }

\* the subfolders the destination may hold before the run:
\* x_id12_pixiv, y_id1_pixiv, z.id2
DestinationPool == { <<"x","_","i","d","1","2","_","p","i","x","i","v">>,
                     <<"y","_","i","d","1","_","p","i","x","i","v">>,
                     <<"z",".","i","d","2">> }

\* what a source subfolder may hold: file stem -> bytes
SourceLayouts ==
    { NoFiles,
      [n \in {<<"f">>} |-> 1],
      [n \in {<<"f">>} |-> 2],
      [n \in {<<"f">>, <<"g">>} |-> IF n = <<"f">> THEN 1 ELSE 2] }

\* what a destination subfolder may hold before the run
DestinationLayouts == { NoFiles, [n \in {<<"f">>} |-> 1] }

\* the files of a tree: every folder of layout with its files
TreeFiles(root, layout) ==
    LET paths == UNION { { <<<<root, d>>, n, 0>> : n \in DOMAIN layout[d] } : d \in DOMAIN layout }
    IN  [p \in paths |-> layout[p[1][2]][p[2]]]

Merge(f, g) == [p \in DOMAIN f \cup DOMAIN g |-> IF p \in DOMAIN f THEN f[p] ELSE g[p]]

\* os.scandir lists a directory in no particular order
Orders(S) == { o \in [1..Cardinality(S) -> S] : \A i, j \in 1..Cardinality(S) : o[i] = o[j] => i = j }

PixivInit ==
    /\ \E srcs \in SUBSET SourcePool, dsts \in SUBSET DestinationPool :
         /\ srcs # {} /\ Cardinality(srcs) <= MaxSubfolders
         /\ \E sl \in [srcs -> SourceLayouts], dl \in [dsts -> DestinationLayouts] :
              /\ dirs = { SourceDir(d) : d \in srcs } \cup { DestinationDir(d) : d \in dsts }
              /\ files = Merge(TreeFiles("source", sl), TreeFiles("destination", dl))
    /\ mappingFile \in
         { [exists |-> FALSE, text |-> <<>>],
           [exists |-> TRUE, text |-> << <<(<<"a">>), (<<"o","l","d">>)>> >>] }
    /\ AUTHOR_MAPPING = <<>>
    /\ lastCall = NoCall
    /\ mv = NoMove
    /\ PxIdle /\ DlIdle
    /\ pc = "start" /\ error = "none"

\* lines 299-318: the exiftool probe and the two scans
PixivStart ==
    /\ pc = "start"
    /\ \E probe_result \in {"ok", "CalledProcessError"} :
         IF probe_result = "ok"
         THEN /\ \E so \in Orders({ d[2] : d \in { x \in dirs : x[1] = "source" } }),
                    do \in Orders({ d[2] : d \in { x \in dirs : x[1] = "destination" } }) :
                    /\ source_subfolders' = so
                    /\ destination_subfolders' = do
              /\ pc' = "subfolder"
              /\ UNCHANGED <<sidx, target_subfolder_f, reused, pending>>
         ELSE /\ pc' = "done"
              /\ UNCHANGED pxVars
    /\ UNCHANGED <<mapVars, fsVars, mv, error, dlVars>>

\* the first scanned destination subfolder whose stem contains id<pixiv_id>
FindTarget(subfolders, pixiv_id) ==
    LET hits == { i \in 1..Len(subfolders) :
                    IsSubstring(<<"i","d">> \o pixiv_id, Stem(subfolders[i])) }
    IN  IF hits = {} THEN [found |-> FALSE, folder |-> <<>>]
        ELSE [found |-> TRUE,
              folder |-> subfolders[CHOOSE i \in hits : \A j \in hits : i <= j]]

ParsedName(folder) ==
    LET parts == Split(folder, SEPARATOR)
    IN  Join(SubSeq(parts, 1, Len(parts) - 1), SEPARATOR)

ParsedId(folder) ==
    LET parts == Split(folder, SEPARATOR) IN parts[Len(parts)]

\* lines 320-343: the next source subfolder, its target and its glob
PixivSubfolder ==
    /\ pc = "subfolder"
    /\ sidx < Len(source_subfolders)
    /\ LET source_subfolder == source_subfolders[sidx + 1]
           name == ParsedName(source_subfolder)
           pixiv_id == ParsedId(source_subfolder)
           recommended_name == IF IsAscii(name) THEN name ELSE Hepburn(name)
           t == FindTarget(destination_subfolders, pixiv_id)
           globbed == { p \in DOMAIN files : p[1] = SourceDir(source_subfolder) }
       IN  IF t.found
           THEN /\ target_subfolder_f' = t.folder
                /\ reused' = TRUE
                /\ pending' = globbed
                /\ UNCHANGED mapVars
           ELSE \E typed \in Typed :
                  LET r == get_or_prompt_username_mapping(mappingFile, name,
                                                          recommended_name, typed)
                  IN  /\ mappingFile' = r.file
                      /\ AUTHOR_MAPPING' = r.mapping
                      /\ lastCall' = [original |-> name,
                                      recommended |-> recommended_name,
                                      ret |-> r.ret, prompts |-> r.prompts,
                                      writes |-> r.writes]
                      /\ target_subfolder_f' =
                           r.ret \o <<"_","i","d">> \o pixiv_id \o <<"_">> \o Postfix
                      /\ reused' = FALSE
                      /\ pending' = globbed
    /\ pc' = "place"
    /\ UNCHANGED <<fsVars, mv, error, source_subfolders, destination_subfolders,
                   sidx, dlVars>>

\* lines 345-347: one file of the glob goes through smart_move
PixivPlace ==
    /\ pc = "place"
    /\ \E source_file \in pending :
         LET final_path == <<DestinationDir(target_subfolder_f), source_file[2], 0>>
             r == smart_move(dirs, files, source_file, final_path, <<>>)
         IN  /\ files' = r.files
             /\ mv' = MoveRecord(source_file, final_path, files[source_file], <<>>, r)
             /\ pending' = pending \ {source_file}
             /\ IF r.outcome = "returned"
                THEN UNCHANGED ctlVars
                ELSE pc' = "aborted" /\ error' = r.outcome
    /\ UNCHANGED <<mapVars, dirs, source_subfolders, destination_subfolders,
                   sidx, target_subfolder_f, reused, dlVars>>

\* the glob is exhausted: on to the next source subfolder
PixivSubfolderDone ==
    /\ pc = "place"
    /\ pending = {}
    /\ sidx' = sidx + 1
    /\ pc' = "subfolder"
    /\ UNCHANGED <<mapVars, fsVars, mv, error, source_subfolders,
                   destination_subfolders, target_subfolder_f, reused, pending, dlVars>>

\* every source subfolder is done
PixivDone ==
    /\ pc = "subfolder"
    /\ sidx = Len(source_subfolders)
    /\ pc' = "done"
    /\ UNCHANGED <<mapVars, fsVars, mv, error, pxVars, dlVars>>

PixivNext ==
    \/ PixivStart
    \/ PixivSubfolder
    \/ PixivPlace
    \/ PixivSubfolderDone
    \/ PixivDone

SpecPixiv == PixivInit /\ [][PixivNext]_vars

(***************************************************************************)
(* download_artstation                                                     *)
(*                                                                         *)
(* A link is a sequence of tokens.  The one-character tokens are the       *)
(* characters a regular expression's "." can match one at a time; every    *)
(* other token is a literal run of characters that the patterns name       *)
(* whole, and that no sequence of other tokens spells.                     *)
(***************************************************************************)
CharTokens == {"a", "x", "1", ".", "/", "?", "q", " ", "|"}

PageLink == <<"https://", "www", ".", "artstation", ".", "com", "/artwork/", "x">>
DirectLink == <<"https://", "cdn", "a", ".", "artstation", ".", "com",
                "/p/assets/images/images", "/", "1", ".jpg">>
OtherAsset == <<"https://", "cdn", "a", ".", "artstation", ".", "com",
                "/p/assets/images/images", "/", "x", ".jpg">>
BothLink == <<"https://", "cdn", "a", ".", "artstation", ".", "com",
              "/p/assets/images/images", "/", "artstation", ".", "com",
              "/artwork/", "x">>
UnknownLink == <<"http://", "example">>

\* the lines a links file may hold
LinePool == { PageLink, <<" ">> \o PageLink \o <<"?", "q">>, DirectLink,
              BothLink, UnknownLink, <<" ">> }

\* the lines gallery-dl -g may print
ListingPool == { DirectLink, OtherAsset \o <<"?", "1">>, <<"|">> \o DirectLink,
                 PageLink, <<" ">> }

Usernames == { <<"u">> }

SeqsUpTo(S, n) == UNION { [1..k -> S] : k \in 0..n }

\* strip_link: link.strip().split("?")[0]
strip_link(link) == Split(Strip(link), "?")[1]

\* re.fullmatch(r"https://cdn.\.artstation.com/p/assets/images/images.*", link)
DirectMatch(link) ==
    /\ Len(link) >= 8
    /\ link[1] = "https://"
    /\ link[2] = "cdn"
    /\ link[3] \in CharTokens
    /\ link[4] = "."
    /\ link[5] = "artstation"
    /\ link[6] \in CharTokens
    /\ link[7] = "com"
    /\ link[8] = "/p/assets/images/images"

\* re.fullmatch(r"https://.*?artstation\.com/artwork/.+", link)
IndirectMatch(link) ==
    /\ Len(link) >= 1
    /\ link[1] = "https://"
    /\ \E i \in 2..(Len(link) - 4) :
         /\ link[i] = "artstation"
         /\ link[i + 1] = "."
         /\ link[i + 2] = "com"
         /\ link[i + 3] = "/artwork/"

InList(x, list) == \E i \in 1..Len(list) : list[i] = x

\* a list comprehension over list with a condition on the mapped element
RECURSIVE StripNonEmpty(_)
StripNonEmpty(lines) ==
    IF lines = <<>> THEN <<>>
    ELSE (IF Len(strip_link(Head(lines))) > 0 THEN <<strip_link(Head(lines))>> ELSE <<>>)
         \o StripNonEmpty(Tail(lines))

\* lines 211-218: the stripped lines of the listing that do not start with "|"
RECURSIVE ResolvedLinks(_)
ResolvedLinks(lines) ==
    IF lines = <<>> THEN <<>>
    ELSE (IF Len(Strip(Head(lines))) > 0 /\ Head(Strip(Head(lines))) # "|"
          THEN <<Strip(Head(lines))>> ELSE <<>>)
         \o ResolvedLinks(Tail(lines))

\* lines 220-222
RECURSIVE LinksToDownload(_, _)
LinksToDownload(resolved, indirect) ==
    IF resolved = <<>> THEN <<>>
    ELSE (IF InList(strip_link(Head(resolved)), indirect) THEN <<Head(resolved)>> ELSE <<>>)
         \o LinksToDownload(Tail(resolved), indirect)

RECURSIVE DirectOf(_)
DirectOf(links) ==
    IF links = <<>> THEN <<>>
    ELSE (IF DirectMatch(Head(links)) THEN <<Head(links)>> ELSE <<>>) \o DirectOf(Tail(links))

RECURSIVE IndirectOf(_)
IndirectOf(links) ==
    IF links = <<>> THEN <<>>
    ELSE (IF IndirectMatch(Head(links)) THEN <<Head(links)>> ELSE <<>>) \o IndirectOf(Tail(links))

RECURSIVE UnknownOf(_, _, _)
UnknownOf(links, direct, indirect) ==
    IF links = <<>> THEN <<>>
    ELSE (IF ~InList(Head(links), direct) /\ ~InList(Head(links), indirect)
          THEN <<Head(links)>> ELSE <<>>)
         \o UnknownOf(Tail(links), direct, indirect)

\* the lines of the text "\n".join(links): the empty text is one empty line
JoinedLines(links) == IF links = <<>> THEN << <<>> >> ELSE links

\* the ordered selections the checkbox prompt can return
RECURSIVE SubLists(_)
SubLists(list) ==
    IF list = <<>> THEN { <<>> }
    ELSE SubLists(Tail(list)) \cup { <<Head(list)>> \o t : t \in SubLists(Tail(list)) }

ArtstationPostfix == <<"a","r","t","s","t","a","t","i","o","n">>

DownloadInit ==
    /\ linksFile \in SeqsUpTo(LinePool, MaxLinks)
    /\ all_links = <<>>
    /\ direct_links = <<>>
    /\ indirect_links = <<>>
    /\ unknown_links = <<>>
    /\ lidx = 0
    /\ username = <<>>
    /\ link_tags = <<>>
    /\ resolved_links = <<>>
    /\ links_to_download = <<>>
    /\ prompted = FALSE
    /\ destination_subfolder = <<>>
    /\ dirs \in { {}, { DestinationDir(<<"u">> \o ArtstationPostfix) } }
    /\ files = NoFiles
    /\ mappingFile \in
         { [exists |-> FALSE, text |-> <<>>],
           [exists |-> TRUE, text |-> << <<(<<"u">>), (<<"o","l","d">>)>> >>] }
    /\ AUTHOR_MAPPING = <<>>
    /\ lastCall = NoCall
    /\ mv = NoMove
    /\ PxIdle
    /\ pc = "start" /\ error = "none"

\* lines 150-195: the two probes only log; the file is read and classified
DownloadStart ==
    /\ pc = "start"
    /\ LET links == StripNonEmpty(linksFile)
       IN  /\ all_links' = links
           /\ direct_links' = DirectOf(links)
           /\ indirect_links' = IndirectOf(links)
           /\ unknown_links' = UnknownOf(links, DirectOf(links), IndirectOf(links))
    /\ pc' = "link"
    /\ UNCHANGED <<mapVars, fsVars, mv, error, pxVars, linksFile, lidx, username,
                   link_tags, resolved_links, links_to_download, prompted,
                   destination_subfolder>>

\* lines 197-222: the two gallery-dl calls for the next indirect link.  The
\* value found for "username" is taken as the string the resolver printed.
DownloadResolve ==
    /\ pc = "link"
    /\ lidx < Len(indirect_links)
    /\ \E meta \in {"CalledProcessError", "no username", "ok"} :
         CASE meta = "CalledProcessError" ->
                /\ pc' = "aborted" /\ error' = "CalledProcessError"
                /\ UNCHANGED <<lidx, username, link_tags, resolved_links,
                               links_to_download>>
           [] meta = "no username" ->
                /\ username' = <<>>
                /\ lidx' = lidx + 1
                /\ UNCHANGED <<ctlVars, link_tags, resolved_links, links_to_download>>
           [] meta = "ok" ->
                \E u \in Usernames, t \in TagLists, listing_exit \in {"CalledProcessError", "ok"} :
                    /\ username' = u
                    /\ link_tags' = t
                    /\ lidx' = lidx
                    /\ IF listing_exit = "ok"
                       THEN \E listing \in SeqsUpTo(ListingPool, MaxListing) :
                              /\ resolved_links' = ResolvedLinks(listing)
                              /\ links_to_download' =
                                   LinksToDownload(ResolvedLinks(listing), indirect_links)
                              /\ pc' = "select" /\ error' = error
                       ELSE /\ pc' = "aborted" /\ error' = "CalledProcessError"
                            /\ UNCHANGED <<resolved_links, links_to_download>>
    /\ UNCHANGED <<mapVars, fsVars, mv, pxVars, linksFile, all_links, direct_links,
                   indirect_links, unknown_links, prompted, destination_subfolder>>

\* lines 239-255: the destination subfolder, once something is selected
DownloadDestination(selected) ==
    IF Len(selected) > 0
    THEN LET naive == username \o ArtstationPostfix
         IN  IF DestinationDir(naive) \in dirs
             THEN /\ destination_subfolder' = naive
                  /\ UNCHANGED <<mapVars, dirs>>
             ELSE \E typed \in Typed :
                    LET r == get_or_prompt_username_mapping(mappingFile, username,
                                                            username, typed)
                    IN  /\ mappingFile' = r.file
                        /\ AUTHOR_MAPPING' = r.mapping
                        /\ lastCall' = [original |-> username, recommended |-> username,
                                        ret |-> r.ret, prompts |-> r.prompts,
                                        writes |-> r.writes]
                        /\ destination_subfolder' = r.ret \o <<"_">> \o ArtstationPostfix
                        /\ dirs' = dirs \cup { DestinationDir(r.ret \o <<"_">> \o ArtstationPostfix) }
    ELSE UNCHANGED <<mapVars, dirs, destination_subfolder>>

\* lines 224-255: the checkbox prompt, if it is shown, and the destination
DownloadSelect ==
    /\ pc = "select"
    /\ IF Len(resolved_links) > 1 /\ Len(links_to_download) = 0
       THEN \E chosen \in SubLists(resolved_links) :
              /\ links_to_download' = chosen
              /\ prompted' = TRUE
              /\ DownloadDestination(chosen)
       ELSE /\ prompted' = FALSE
            /\ UNCHANGED links_to_download
            /\ DownloadDestination(links_to_download)
    /\ pc' = "download"
    /\ UNCHANGED <<files, mv, error, pxVars, linksFile, all_links, direct_links,
                   indirect_links, unknown_links, lidx, username, link_tags,
                   resolved_links>>

\* lines 257-270: the first selected link: wget is started with
\* stdout=subprocess.STDOUT, which raises before anything is transferred
DownloadTransfer ==
    /\ pc = "download"
    /\ Len(links_to_download) > 0
    /\ check_call("subprocess.STDOUT") # "ok"
    /\ pc' = "aborted"
    /\ error' = check_call("subprocess.STDOUT")
    /\ UNCHANGED <<mapVars, fsVars, mv, pxVars, dlVars>>

\* nothing is selected: on to the next indirect link
DownloadNothing ==
    /\ pc = "download"
    /\ Len(links_to_download) = 0
    /\ lidx' = lidx + 1
    /\ pc' = "link"
    /\ UNCHANGED <<mapVars, fsVars, mv, error, pxVars, linksFile, all_links,
                   direct_links, indirect_links, unknown_links, username, link_tags,
                   resolved_links, links_to_download, prompted, destination_subfolder>>

\* line 274: the links file is rewritten
DownloadFinish ==
    /\ pc = "link"
    /\ lidx = Len(indirect_links)
    /\ linksFile' = JoinedLines(unknown_links)
    /\ pc' = "done"
    /\ UNCHANGED <<mapVars, fsVars, mv, error, pxVars, all_links, direct_links,
                   indirect_links, unknown_links, lidx, username, link_tags,
                   resolved_links, links_to_download, prompted, destination_subfolder>>

DownloadNext ==
    \/ DownloadStart
    \/ DownloadResolve
    \/ DownloadSelect
    \/ DownloadTransfer
    \/ DownloadNothing
    \/ DownloadFinish

SpecDownload == DownloadInit /\ [][DownloadNext]_vars

(***************************************************************************)
(* C6: when a mapping for key k already exists in the mapping file, a call *)
(* get_or_prompt_username_mapping(k, r) returns the stored value whatever  *)
(* r is, shows no prompt, writes nothing, and leaves the file unchanged.   *)
(***************************************************************************)
StoredIn(file, k) == DictGet(json_loads(file.text), k)

C6_ExistingMappingReturnedUntouched ==
    [][\A k \in Keys :
         (mappingFile.exists /\ StoredIn(mappingFile, k).found
            /\ lastCall'.original = k)
         => /\ lastCall'.ret = StoredIn(mappingFile, k).value
            /\ lastCall'.prompts = 0
            /\ lastCall'.writes = 0
            /\ mappingFile' = mappingFile]_vars

\* a call found a stored value that differs from the recommended one
C6_Witness ==
    /\ lastCall.original \in Keys
    /\ lastCall.prompts = 0
    /\ lastCall.writes = 0
    /\ lastCall.ret # lastCall.recommended
    /\ StoredIn(mappingFile, lastCall.original).found

(***************************************************************************)
(* C1: in the download pipeline, when the resolver's quality-filtered      *)
(* listing for a page link holds exactly one candidate, that candidate is  *)
(* selected without the checkbox prompt and the selection is not empty,    *)
(* whether or not its stripped form is one of the page links.              *)
(***************************************************************************)
C1_SingleCandidateAutoSelected ==
    (pc = "download" /\ Len(resolved_links) = 1)
      => /\ links_to_download = resolved_links
         /\ ~prompted

(***************************************************************************)
(* C2: after a download run that completes, the rewritten links file holds *)
(* exactly the links that were not successfully resolved and downloaded:   *)
(* every unknown link, every direct link, every page link that was skipped *)
(* or had an empty selection.  A run that completes has downloaded nothing *)
(* (a transfer ends the run), so these are all of all_links.               *)
(***************************************************************************)
C2_RewrittenFileKeepsUnprocessedLinks ==
    pc = "done"
      => /\ \A i \in 1..Len(all_links) : InList(all_links[i], linksFile)
         /\ Len(StripNonEmpty(linksFile)) = Len(all_links)

(***************************************************************************)
(* C3: a non-zero exit of the resolver while an indirect link is processed *)
(* ends only that link's processing: the run is not ended by it, the later *)
(* links are still processed and the links file is still rewritten.        *)
(***************************************************************************)
C3_ResolverFailureEndsOnlyThatLink ==
    error = "CalledProcessError" => pc # "aborted"

(***************************************************************************)
(* C5: once the links are classified, every link of all_links is in        *)
(* exactly one of direct_links, indirect_links and unknown_links, and the  *)
(* three lists together are as long as all_links.                          *)
(***************************************************************************)
C5_ClassificationPartitions ==
    pc # "start"
      => /\ \A i \in 1..Len(all_links) :
              Cardinality({ l \in {"direct", "indirect", "unknown"} :
                  \/ l = "direct" /\ InList(all_links[i], direct_links)
                  \/ l = "indirect" /\ InList(all_links[i], indirect_links)
                  \/ l = "unknown" /\ InList(all_links[i], unknown_links) }) = 1
         /\ Len(direct_links) + Len(indirect_links) + Len(unknown_links)
              = Len(all_links)

(***************************************************************************)
(* C4: over any sequence of smart_move placements into one directory with  *)
(* the same desired file name, no existing destination file is overwritten *)
(* or changed; if a file among name, name_1, name_2, ... already holds the *)
(* source's bytes no new file is created; otherwise the source lands at    *)
(* the first free name in that order, so that the files of one name occupy *)
(* the postfixes 0, 1, ..., k-1 without a gap and hold k distinct contents.*)
(***************************************************************************)
DestPart(fs) == [p \in {q \in DOMAIN fs : q[1] = DestDir} |-> fs[p]]

Postfixes(fs, name) == {p[3] : p \in {q \in DOMAIN fs : q[1] = DestDir /\ q[2] = name}}

FirstFree(fs, name) ==
    CHOOSE n \in 0..Cardinality(Postfixes(fs, name)) :
        /\ n \notin Postfixes(fs, name)
        /\ \A m \in 0..(n - 1) : m \in Postfixes(fs, name)

Contiguous(fs, name) ==
    /\ Postfixes(fs, name) = 0..(Cardinality(Postfixes(fs, name)) - 1)
    /\ \A m, n \in Postfixes(fs, name) :
         m # n => fs[<<DestDir, name, m>>] # fs[<<DestDir, name, n>>]

C4_PlacementNeverOverwrites ==
    [][LET name == mv'.target[2]
           bytes == mv'.bytes
       IN  /\ \A p \in DOMAIN DestPart(files) :
                p \in DOMAIN files' /\ files'[p] = files[p]
           /\ IF \E n \in Postfixes(files, name) : files[<<DestDir, name, n>>] = bytes
              THEN DestPart(files') = DestPart(files)
              ELSE DestPart(files') =
                     WriteFile(DestPart(files),
                               <<DestDir, name, FirstFree(files, name)>>, bytes)
           /\ \A n \in FileNames : Contiguous(files', n)]_vars

\* a fourth placement under one name matched a file after three had landed
C4_Witness ==
    /\ Postfixes(files, <<"f">>) = {0, 1, 2}
    /\ mv.target = <<DestDir, <<"f">>, 0>>
    /\ mv.hit
    /\ files[<<DestDir, <<"f">>, 2>>] = mv.bytes

(***************************************************************************)
(* C8: when smart_move ends in a hash match, the source file is discarded: *)
(* after the call the source path no longer exists.                        *)
(***************************************************************************)
C8_SourceDiscardedOnHashMatch ==
    mv.hit => ~PathExists(files, mv.source)

(***************************************************************************)
(* C9: every smart_move call that renames the source into the destination, *)
(* under the desired name or a postfixed one, makes the metadata-scrub     *)
(* call and then the tag-writer call on the placed file with the given     *)
(* tags before it returns; a call that ends in a hash match makes neither. *)
(***************************************************************************)
C9_RenameFollowedByScrubAndTag ==
    /\ mv.placed # NoPath =>
         /\ mv.outcome = "returned"
         /\ mv.calls = <<ScrubCall(mv.placed), TagCall(mv.placed, mv.tags)>>
    /\ mv.hit => mv.calls = <<>>

(***************************************************************************)
(* C7: in move_pixiv, when no scanned destination subfolder matches the id *)
(* and a new folder <author>_id<id>_<postfix> is chosen, that folder       *)
(* exists by the time the first file of the source subfolder is placed,    *)
(* and no placement fails for a missing target directory.                  *)
(***************************************************************************)
C7_NewTargetFolderExistsBeforePlacing ==
    /\ (pc = "place" /\ ~reused /\ pending # {})
         => DestinationDir(target_subfolder_f) \in dirs
    /\ mv.outcome # "FileNotFoundError"

(***************************************************************************)
(* C10: in move_pixiv a file from a source subfolder whose parsed id is X  *)
(* is only ever placed into a destination folder whose id field, the part  *)
(* after "id" in its second-to-last segment, is exactly X.                 *)
(***************************************************************************)
DestinationId(folder) ==
    LET parts == Split(folder, SEPARATOR)
        field == parts[Len(parts) - 1]
    IN  SubSeq(field, 3, Len(field))

C10_PlacedOnlyIntoFolderOfSameId ==
    (mv.placed # NoPath /\ mv.source[1][1] = "source")
      => DestinationId(mv.placed[1][2]) = ParsedId(mv.source[1][2])

====
